---- MODULE Spec2Model ----
(***************************************************************************)
(* A model of the Steem client of src/api.js: the request dispatcher       *)
(* (start, stop, waitForSlot, send and the per-request 'message'           *)
(* listener) and the polling stream layers built on it                     *)
(* (streamBlockNumber, streamBlock, streamTransactions,                    *)
(* streamOperations).                                                      *)
(*                                                                         *)
(* Scheduling.  JavaScript runs one callback at a time.  A step of the     *)
(* model is one macrotask: a call made by the user, a socket event (open,  *)
(* close, message) or a timer (the 100 ms admission timer, the stream's    *)
(* poll timer), together with every promise continuation it enables, since *)
(* promise continuations run before the next macrotask.  All admission     *)
(* timers have the same delay (100), so they fire in the order in which    *)
(* they were set, and the timers set during one macrotask expire together  *)
(* and are run back to back by the event loop: gateQ holds the pending     *)
(* timers as batches, one batch per macrotask that set any, oldest first.  *)
(*                                                                         *)
(* Build.  The module is written with import/export syntax and is run      *)
(* through a transpiler that turns const into var, so `startP` read inside *)
(* the executor of line 58 is undefined, like this.startP, and the         *)
(* executor goes on to open the socket.  Promise.map calls its mapper      *)
(* inside start(), so the four API-id requests are issued by start().      *)
(*                                                                         *)
(* Not modelled: the values of this.apiIds (lines 116-117), which only     *)
(* appear inside the payload, and the payload's text.                      *)
(***************************************************************************)
EXTENDS Integers, Sequences, FiniteSets, TLC

\* ----------------------------------------------------------------- bounds
\* user calls of send in Spec
MaxSends == 2
\* sockets opened by start() in one run
MaxConns == 2
\* inbound messages received from the sockets in one run
MaxMsgs == 2
\* calls of send in SpecGate
MaxCalls == 12
\* inbound messages in SpecGate
MaxGateMsgs == 1
\* largest chain head the server reports
MaxHead == 2
\* polls (chain-head queries) of one subscription
MaxPolls == 3
\* user calls of send in SpecFetch
MaxStreamSends == 1
\* stream subscriptions in SpecSiblings
MaxSubs == 2
\* polls of one subscription in SpecSiblings
MaxSiblingPolls == 2
\* user calls of send, sockets and inbound messages in SpecCount
MaxCountSends == 1
MaxCountConns == 2
MaxCountMsgs == 2

\* ------------------------------------------------------ program constants
\* the admission gate's capacity: `this.inFlight < 10`
Cap == 10
\* the number of entries of DEFAULTS.apiIds
NumApis == 4
\* data.id when the caller's data has no id field
NoId == -1
\* '' : the initial value of current and last in the stream layers
NoBlock == 0

\* identities a caller of send may supply: none, 0 (falsy), and two that lie
\* among the values the counter reaches
DataIds == {NoId, 0, 3}
\* result payloads of responses to plain requests
Results == {1, 2}
\* chain heads
Heads == 1 .. MaxHead
\* block bodies the server can return: each a sequence of transactions, each
\* transaction the sequence of its operations
Blocks ==
  << << <<11, 12>>, <<13, 14>>, <<15, 16>> >>,
     << <<21>>, << >>, <<22, 23>> >>,
     << >> >>

VARIABLES
  id,         \* this.id: the identity counter
  inFlight,   \* this.inFlight
  startP,     \* this.startP: 0 when absent, else the number of the start promise
  conns,      \* start promises (sockets) created so far
  opened,     \* the start promises that are resolved
  ws,         \* this.ws: "none" (absent), "connecting", "open", "closed", "dropping"
  isOpen,     \* this.isOpen
  wsL,        \* the listeners start() registered on this.ws and not yet released
  reqs,       \* one record per call of send, in the order the calls joined startP
  gateQ,      \* the pending waitForSlot timers: batches of requests, in firing order
  listeners,  \* the 'message' listeners registered on the client, in order
  wire,       \* history: the requests whose payload was written, in write order
  subs,       \* one record per stream subscription
  nMsg,       \* history: inbound messages received from the sockets
  lastMsg     \* history: the last inbound message handed to the listeners

vars == << id, inFlight, startP, conns, opened, ws, isOpen, wsL, reqs, gateQ,
           listeners, wire, subs, nMsg, lastMsg >>

\* The client's state at the start of a macrotask, as one value, for the
\* operators that model the methods; the timers the macrotask sets go to a
\* batch of their own, the last of gateQ.
St ==
  [ id |-> id, inFlight |-> inFlight, startP |-> startP, conns |-> conns,
    opened |-> opened, ws |-> ws, isOpen |-> isOpen, wsL |-> wsL, reqs |-> reqs,
    gateQ |-> Append(gateQ, << >>), listeners |-> listeners, wire |-> wire, subs |-> subs ]

Commit(S) ==
  /\ id' = S.id
  /\ inFlight' = S.inFlight
  /\ startP' = S.startP
  /\ conns' = S.conns
  /\ opened' = S.opened
  /\ ws' = S.ws
  /\ isOpen' = S.isOpen
  /\ wsL' = S.wsL
  /\ reqs' = S.reqs
  /\ gateQ' = SelectSeq(S.gateQ, LAMBDA b : b # << >>)
  /\ listeners' = S.listeners
  /\ wire' = S.wire
  /\ subs' = S.subs

\* ------------------------------------------------------------ constructor
Init ==
  /\ id = 0
  /\ inFlight = 0
  /\ startP = 0
  /\ conns = 0
  /\ opened = {}
  /\ ws = "none"
  /\ isOpen = FALSE
  /\ wsL = {}
  /\ reqs = << >>
  /\ gateQ = << >>
  /\ listeners = << >>
  /\ wire = << >>
  /\ subs = << >>
  /\ nMsg = 0
  /\ lastMsg = [id |-> 0, stale |-> FALSE]

\* ------------------------------------------------------------- helpers
Remove(seq, x) == SelectSeq(seq, LAMBDA y : y # x)

\* The record of one call of send.  slot: its waitForSlot promise is
\* fulfilled; sent: the executor of line 137 ran; wrote: ws.send took the
\* payload; outcome: the state of the promise of line 137.  answered and
\* match are history: a message carrying this identity reached the socket
\* after the payload was written; what the listener's own match carried.
NewReq(rid, kind, sub, gen, dataErr, arg) ==
  [ id |-> rid, kind |-> kind, sub |-> sub, gen |-> gen, dataErr |-> dataErr,
    arg |-> arg, slot |-> FALSE, sent |-> FALSE, wrote |-> FALSE,
    listening |-> FALSE, outcome |-> "pending", result |-> 0,
    answered |-> FALSE, match |-> "none" ]

\* lines 57-85: the executor of start's promise
NewSocket(S) ==
  [S EXCEPT !.conns = @ + 1,
            !.startP = S.conns + 1,
            !.ws = "connecting",
            !.wsL = {"open", "close", "message"}]

\* Promise.delay(100) of line 126: the timer joins the macrotask's batch
arm(q, r) == [q EXCEPT ![Len(q)] = Append(@, r)]

\* line 134: data.id || this.id++
UsesCounter(dataId) == dataId = NoId \/ dataId = 0

RECURSIVE start(_)
RECURSIVE send(_, _, _, _, _, _)
RECURSIVE getApiIds(_, _)

\* faulty variant of send: line 185, `this.inFlight += 1`, is missing
sendUncounted(S, kind, sub, dataId, dataErr, arg) ==
  LET rid == IF UsesCounter(dataId) THEN S.id ELSE dataId
      S1 == IF UsesCounter(dataId) THEN [S EXCEPT !.id = @ + 1] ELSE S
      S2 == start(S1)
      r == Len(S2.reqs) + 1
  IN [S2 EXCEPT !.reqs = Append(@, NewReq(rid, kind, sub, S2.startP, dataErr, arg)),
                !.gateQ = arm(@, r)]

\* lines 133-188, up to the return: the identity, the join of start() and
\* waitForSlot() (whose timer is set now), and the increment of line 185
send(S, kind, sub, dataId, dataErr, arg) ==
  LET rid == IF UsesCounter(dataId) THEN S.id ELSE dataId
      S1 == IF UsesCounter(dataId) THEN [S EXCEPT !.id = @ + 1] ELSE S
      S2 == start(S1)
      r == Len(S2.reqs) + 1
  IN [S2 EXCEPT !.reqs = Append(@, NewReq(rid, kind, sub, S2.startP, dataErr, arg)),
                !.gateQ = arm(@, r),
                !.inFlight = @ + 1]

\* lines 112-123: one getApiByName call per configured API name
getApiIds(S, n) ==
  IF n = 0 THEN S ELSE getApiIds(send(S, "api", 0, NoId, FALSE, 0), n - 1)

\* lines 54-90
start(S) ==
  IF S.startP # 0 THEN S ELSE getApiIds(NewSocket(S), NumApis)

\* ---------------------------------------------------------- stream layers
\* One subscription: a call of streamBlockNumber ("number"), streamBlock
\* ("block"), streamTransactions ("tx") or streamOperations ("op").
\* running and current are the variables of streamBlockNumber; bcurrent and
\* last those of streamBlock; timer: the Promise.delay(ts) of line 206 is
\* pending.  History: cancelled (the handle was called), polls (chain-head
\* queries issued), heads (heads returned to the polls), emitted (identities
\* streamBlockNumber passed to its callback), fetches (identities passed to
\* getBlock), blocks (bodies streamBlock passed to its callback), events and
\* errs (what the caller's callback received).
NewSub(layer) ==
  [ layer |-> layer, running |-> TRUE, current |-> NoBlock, bcurrent |-> NoBlock,
    last |-> NoBlock, timer |-> FALSE, cancelled |-> FALSE, polls |-> 0,
    heads |-> << >>, emitted |-> << >>, fetches |-> << >>, blocks |-> << >>,
    events |-> << >>, errs |-> 0 ]

\* faulty variant of StrictNE: a comparison that never finds its operands equal
StrictNEAlways(a, b) == TRUE

\* JavaScript's !== on block identities (lines 201 and 233)
StrictNE(a, b) == a # b

\* the callback the caller passed to the stream call
userCallback(S, s, err, val) ==
  IF err THEN [S EXCEPT !.subs[s].errs = @ + 1]
  ELSE [S EXCEPT !.subs[s].events = Append(@, val)]

\* the handle of lines 216-218, as the layers above call it: running = false
release(S, s) == [S EXCEPT !.subs[s].running = FALSE]

\* faulty variant of forEachOperation: only the first operation is passed on
forEachOperationFirst(S, s, ops, i) ==
  IF ops = << >> THEN S ELSE userCallback(S, s, FALSE, ops[1])

RECURSIVE forEachOperation(_, _, _, _)
\* lines 266-268
forEachOperation(S, s, ops, i) ==
  IF i > Len(ops) THEN S
  ELSE forEachOperation(userCallback(S, s, FALSE, ops[i]), s, ops, i + 1)

\* lines 259-269: the callback streamOperations passes to streamTransactions
operationsHandler(S, s, err, transaction) ==
  IF err THEN userCallback(release(S, s), s, TRUE, 0)
  ELSE forEachOperation(S, s, transaction, 1)

\* the callback streamTransactions was given
transactionCallback(S, s, err, transaction) ==
  IF S.subs[s].layer = "tx" THEN userCallback(S, s, err, transaction)
  ELSE operationsHandler(S, s, err, transaction)

RECURSIVE forEachTransaction(_, _, _, _)
\* lines 250-252
forEachTransaction(S, s, txs, i) ==
  IF i > Len(txs) THEN S
  ELSE forEachTransaction(transactionCallback(S, s, FALSE, txs[i]), s, txs, i + 1)

\* lines 243-253: the callback streamTransactions passes to streamBlock;
\* result is the number of the block body in Blocks
transactionsHandler(S, s, err, result) ==
  IF err THEN transactionCallback(release(S, s), s, TRUE, << >>)
  ELSE forEachTransaction(S, s, Blocks[result], 1)

\* the callback streamBlock was given (it is also getBlock's callback, line 235)
blockCallback(S, s, err, result) ==
  LET S1 == IF err THEN S ELSE [S EXCEPT !.subs[s].blocks = Append(@, result)]
  IN IF S.subs[s].layer = "block" THEN userCallback(S1, s, err, result)
     ELSE transactionsHandler(S1, s, err, result)

\* lines 225-237: the callback streamBlock passes to streamBlockNumber
blockNumberHandler(S, s, err, blockId) ==
  IF err THEN blockCallback(release(S, s), s, TRUE, 0)
  ELSE LET S1 == [S EXCEPT !.subs[s].bcurrent = blockId]
       IN IF StrictNE(S1.subs[s].bcurrent, S1.subs[s].last)
          THEN send([S1 EXCEPT !.subs[s].last = S1.subs[s].bcurrent,
                               !.subs[s].fetches = Append(@, S1.subs[s].bcurrent)],
                    "block", s, NoId, FALSE, S1.subs[s].bcurrent)
          ELSE S1

\* the callback streamBlockNumber was given
blockNumberCallback(S, s, err, blockId) ==
  LET S1 == IF err THEN S ELSE [S EXCEPT !.subs[s].emitted = Append(@, blockId)]
  IN IF S.subs[s].layer = "number" THEN userCallback(S1, s, err, blockId)
     ELSE blockNumberHandler(S1, s, err, blockId)

\* faulty variant of headFulfilled: line 202, `current = blockId`, is missing
headFulfilledNoUpdate(S, s, blockId) ==
  LET S0 == [S EXCEPT !.subs[s].heads = Append(@, blockId)]
      S1 == IF StrictNE(blockId, S0.subs[s].current)
            THEN blockNumberCallback(S0, s, FALSE, blockId)
            ELSE S0
  IN [S1 EXCEPT !.subs[s].timer = TRUE]

\* lines 199-208: the chain-head query of line 198 was fulfilled
headFulfilled(S, s, blockId) ==
  LET S0 == [S EXCEPT !.subs[s].heads = Append(@, blockId)]
      S1 == IF StrictNE(blockId, S0.subs[s].current)
            THEN blockNumberCallback([S0 EXCEPT !.subs[s].current = blockId],
                                     s, FALSE, blockId)
            ELSE S0
  IN [S1 EXCEPT !.subs[s].timer = TRUE]

\* lines 209-211: the chain-head query was rejected
headRejected(S, s) == blockNumberCallback(S, s, TRUE, 0)

\* lines 194-198: update()
update(S, s) ==
  IF ~S.subs[s].running THEN S
  ELSE send([S EXCEPT !.subs[s].polls = @ + 1], "head", s, NoId, FALSE, 0)

\* lines 190-219 (and 221-240, 242-256, 258-272, which only wrap it)
streamBlockNumber(S, layer) ==
  update([S EXCEPT !.subs = Append(@, NewSub(layer))], Len(S.subs) + 1)

\* ------------------------------------------------------------- settling
\* lines 180-183: the callback of a call of send, by who made the call
callback(S, r, err, result) ==
  LET q == S.reqs[r]
  IN CASE q.kind = "head" ->
            IF err THEN headRejected(S, q.sub) ELSE headFulfilled(S, q.sub, result)
       [] q.kind = "block" -> blockCallback(S, q.sub, err, result)
       [] OTHER -> S

\* resolve / reject of the promise of line 137: it settles once
settle(S, r, outcome, result) ==
  IF S.reqs[r].outcome # "pending" THEN S
  ELSE [S EXCEPT !.reqs[r].outcome = outcome, !.reqs[r].result = result]

\* whether this.ws.send(payload) throws: this.ws is absent (a TypeError), or
\* the socket is still connecting, or it is closed and of the class ws; a
\* browser's WebSocket drops data sent on a closed socket ("dropping")
SendThrows(S) == S.ws \in {"none", "connecting", "closed"}

\* lines 137-179: the executor.  The listener is registered before ws.send;
\* a throw inside the executor rejects the promise.
executor(S, r) ==
  LET S1 == [S EXCEPT !.reqs[r].sent = TRUE,
                      !.reqs[r].listening = TRUE,
                      !.listeners = Append(@, r)]
  IN IF S.ws = "open"
     THEN [S1 EXCEPT !.reqs[r].wrote = TRUE, !.wire = Append(@, r)]
     ELSE IF SendThrows(S)
          THEN callback(settle(S1, r, "rejected", 0), r, TRUE, 0)
          ELSE S1

\* faulty variant of IsOld: the check of line 150 never drops a message
IsOldNever(mid, rid) == FALSE

\* line 150: `message.id < id`
IsOld(mid, rid) == mid < rid

\* lines 148-175: the 'message' listener of request r receives m
listener(S, r, m) ==
  LET q == S.reqs[r]
  IN IF IsOld(m.id, q.id) THEN S
     ELSE LET S1 == [S EXCEPT !.inFlight = @ - 1,
                              !.reqs[r].listening = FALSE,
                              !.listeners = Remove(@, r)]
          IN IF m.id # q.id THEN S1
             ELSE LET S2 == [S1 EXCEPT !.reqs[r].match = IF m.err THEN "err" ELSE "ok"]
                  IN IF q.dataErr
                     THEN settle(S2, r, "rejected", 0)
                     ELSE settle(S2, r, "resolved", m.result)

RECURSIVE callListeners(_, _, _, _)
callListeners(S, snap, i, m) ==
  IF i > Len(snap) THEN S
  ELSE callListeners(listener(S, snap[i], m), snap, i + 1, m)

RECURSIVE runCallbacks(_, _, _)
runCallbacks(S, settled, i) ==
  IF i > Len(settled) THEN S
  ELSE LET r == settled[i]
       IN runCallbacks(callback(S, r, S.reqs[r].outcome = "rejected", S.reqs[r].result),
                       settled, i + 1)

\* line 77: this.emit('message', ...): every registered listener is called,
\* then the continuations of the promises they settled run, in that order
emit(S, m) ==
  LET snap == S.listeners
      S1 == callListeners(S, snap, 1, m)
      settled == SelectSeq(snap, LAMBDA r : S.reqs[r].outcome = "pending"
                                            /\ S1.reqs[r].outcome # "pending")
  IN runCallbacks(S1, settled, 1)

\* line 74-78: the socket's 'message' listener
onMessage(S, m) ==
  emit([S EXCEPT !.wsL = @ \ {"message"}], m)

RECURSIVE transmitAll(_, _)
\* the joins of line 136 that were only waiting for startP, in the order in
\* which they subscribed to it
transmitAll(S, i) ==
  IF i > Len(S.reqs) THEN S
  ELSE LET q == S.reqs[i]
       IN IF q.gen = S.startP /\ q.slot /\ ~q.sent
          THEN transmitAll(executor(S, i), i + 1)
          ELSE transmitAll(S, i + 1)

\* lines 61-66: the socket's 'open' listener
onOpen(S) ==
  transmitAll([S EXCEPT !.isOpen = TRUE,
                        !.ws = "open",
                        !.wsL = @ \ {"open"},
                        !.opened = @ \cup {S.startP}], 1)

\* lines 68-72: the socket's 'close' listener; after is the closed socket's
\* state, which depends on the WebSocket class of lines 15-22
onClose(S, after) ==
  [S EXCEPT !.wsL = @ \ {"close"}, !.isOpen = FALSE, !.ws = after]

\* lines 92-98 (setWebSocket, lines 49-52, only sets the url before)
stop(S) ==
  [S EXCEPT !.ws = "none", !.startP = 0, !.wsL = {}]

\* lines 126-130: the 100 ms timer of request r fires
waitForSlot(S, r) ==
  IF S.inFlight < Cap
  THEN LET S1 == [S EXCEPT !.reqs[r].slot = TRUE]
       IN IF S.reqs[r].gen \in S.opened THEN executor(S1, r) ELSE S1
  ELSE [S EXCEPT !.gateQ = arm(@, r)]

RECURSIVE fireTimers(_, _, _)
\* the timers of one batch fire in the order in which they were set
fireTimers(S, batch, i) ==
  IF i > Len(batch) THEN S
  ELSE fireTimers(waitForSlot(S, batch[i]), batch, i + 1)

\* --------------------------------------------------------- environment
\* The inbound messages the server may send: any identity up to the
\* counter, with or without an error indicator; the result payload has the
\* shape of the request the identity belongs to.
ResultsFor(S, mid) ==
  LET kinds == {S.reqs[i].kind : i \in {j \in 1 .. Len(S.reqs) : S.reqs[j].id = mid}}
  IN IF "head" \in kinds THEN Heads
     ELSE IF "block" \in kinds THEN 1 .. Len(Blocks)
     ELSE IF kinds # {} THEN Results
     ELSE {0}

Listening(S) == {i \in 1 .. Len(S.reqs) : S.reqs[i].listening}

\* history: the message's identity is below that of every registered listener
IsStale(S, mid) ==
  /\ Listening(S) # {}
  /\ \A i \in Listening(S) : mid < S.reqs[i].id

\* history: the requests on the wire whose identity the message carries
markAnswered(S, mid) ==
  [S EXCEPT !.reqs = [i \in 1 .. Len(S.reqs) |->
                        IF S.reqs[i].wrote /\ S.reqs[i].id = mid
                        THEN [S.reqs[i] EXCEPT !.answered = TRUE]
                        ELSE S.reqs[i]]]

\* The error indicator and the result payload reach only a listener whose
\* identity the message carries; for any other message one value stands for all.
ErrsFor(S, mid) ==
  IF "message" \in S.wsL /\ \E i \in Listening(S) : S.reqs[i].id = mid
  THEN BOOLEAN ELSE {FALSE}

PayloadsFor(S, mid) ==
  IF "message" \in S.wsL /\ \E i \in Listening(S) : S.reqs[i].id = mid
  THEN ResultsFor(S, mid) ELSE {0}

\* The socket receives a message with an identity of ids; its 'message'
\* listener, when still registered, handles it.
Receive(limit, ids) ==
  /\ ws = "open"
  /\ nMsg < limit
  /\ \E mid \in ids :
       \E err \in ErrsFor(St, mid), result \in PayloadsFor(St, mid) :
         LET m == [id |-> mid, err |-> err, result |-> result]
             S0 == markAnswered(St, mid)
         IN /\ nMsg' = nMsg + 1
            /\ IF "message" \in wsL
               THEN /\ lastMsg' = [id |-> mid, stale |-> IsStale(St, mid)]
                    /\ Commit(onMessage(S0, m))
               ELSE /\ lastMsg' = lastMsg
                    /\ Commit(S0)

\* any identity up to the counter
AnyId == 0 .. id

\* the identities of the requests the server was sent and has not answered
Unanswered == {reqs[i].id : i \in {j \in 1 .. Len(reqs) : reqs[j].wrote /\ ~reqs[j].answered}}

UserSends == Cardinality({i \in 1 .. Len(reqs) : reqs[i].kind = "user"})

\* a call that may reach start() is made only while sockets remain
MayStart == startP # 0 \/ conns < MaxConns

\* ------------------------------------------------------------- actions
\* the user calls send(api, data, callback)
Send ==
  /\ UserSends < MaxSends
  /\ MayStart
  /\ \E dataId \in DataIds, dataErr \in BOOLEAN :
       Commit(send(St, "user", 0, dataId, dataErr, 0))
  /\ UNCHANGED << nMsg, lastMsg >>

\* the socket opens
Open ==
  /\ ws = "connecting"
  /\ "open" \in wsL
  /\ Commit(onOpen(St))
  /\ UNCHANGED << nMsg, lastMsg >>

\* the oldest batch of admission timers fires
GateTick ==
  /\ gateQ # << >>
  /\ Commit(fireTimers([St EXCEPT !.gateQ = Tail(@)], Head(gateQ), 1))
  /\ UNCHANGED << nMsg, lastMsg >>

Message == Receive(MaxMsgs, AnyId)

\* the socket closes or fails
Close ==
  /\ ws \in {"connecting", "open"}
  /\ "close" \in wsL
  /\ \E after \in {"closed", "dropping"} : Commit(onClose(St, after))
  /\ UNCHANGED << nMsg, lastMsg >>

\* the user calls stop() or setWebSocket(url)
Stop ==
  /\ ws # "none"
  /\ Commit(stop(St))
  /\ UNCHANGED << nMsg, lastMsg >>

Next == Send \/ Open \/ GateTick \/ Message \/ Close \/ Stop

Spec == Init /\ [][Next]_vars

\* --------------------------------------------- the admission gate at its cap
\* the user calls send with no identity of their own
SendPlain ==
  /\ Len(reqs) < MaxCalls
  /\ Commit(send(St, "user", 0, NoId, FALSE, 0))
  /\ UNCHANGED << nMsg, lastMsg >>

\* the server answers a request it was sent, each once, in any order
GateMessage == Receive(MaxGateMsgs, Unanswered)

NextGate == SendPlain \/ Open \/ GateTick \/ GateMessage

SpecGate == Init /\ [][NextGate]_vars

\* The same, with the event loop's guarantees: a pending timer fires (line
\* 126) and the socket that is connecting opens.  The user's calls and the
\* server's answers are under no obligation.
SpecGateLive == SpecGate /\ WF_vars(GateTick) /\ WF_vars(Open)

\* ------------------------------------------------------- the stream layers
\* the user calls streamBlockNumber, streamBlock, streamTransactions or
\* streamOperations
Subscribe ==
  /\ subs = << >>
  /\ \E layer \in {"number", "block", "tx", "op"} :
       Commit(streamBlockNumber(St, layer))
  /\ UNCHANGED << nMsg, lastMsg >>

\* the Promise.delay(ts) of line 206 expires: lines 206-208
PollTimer ==
  /\ \E s \in 1 .. Len(subs) :
       /\ subs[s].timer
       /\ subs[s].polls < MaxPolls
       /\ Commit(update([St EXCEPT !.subs[s].timer = FALSE], s))
  /\ UNCHANGED << nMsg, lastMsg >>

\* the user calls the handle a stream call returned: lines 216-218
Cancel ==
  /\ \E s \in 1 .. Len(subs) :
       /\ ~subs[s].cancelled
       /\ Commit([release(St, s) EXCEPT !.subs[s].cancelled = TRUE])
  /\ UNCHANGED << nMsg, lastMsg >>

\* the user calls setWebSocket(url) and then a method of the client
Reconnect ==
  /\ subs # << >>
  /\ UserSends < MaxStreamSends
  /\ ws # "none"
  /\ Commit(send(stop(St), "user", 0, NoId, FALSE, 0))
  /\ UNCHANGED << nMsg, lastMsg >>

\* the user calls streamBlock
SubscribeBlock ==
  /\ subs = << >>
  /\ Commit(streamBlockNumber(St, "block"))
  /\ UNCHANGED << nMsg, lastMsg >>

\* a message the socket's listener hands to the client (one that arrives
\* after that listener was released changes nothing a stream reads)
StreamMessage == "message" \in wsL /\ Receive(MaxPolls, AnyId)

\* the server answers a request it was sent, each once, in any order, on the
\* socket that is open, and the socket's listener hands the answer on
FetchMessage == "message" \in wsL /\ Receive(MaxPolls + MaxStreamSends, Unanswered)

NextStream ==
  Subscribe \/ PollTimer \/ Cancel \/ Open \/ GateTick \/ StreamMessage \/ Close \/ Stop

SpecStream == Init /\ [][NextStream]_vars

NextFetch == SubscribeBlock \/ PollTimer \/ Reconnect \/ Open \/ GateTick \/ FetchMessage

SpecFetch == Init /\ [][NextFetch]_vars

\* ------------------------------------------- independent subscriptions
\* the user calls streamBlockNumber, again while earlier subscriptions run
SubscribeNumber ==
  /\ Len(subs) < MaxSubs
  /\ Commit(streamBlockNumber(St, "number"))
  /\ UNCHANGED << nMsg, lastMsg >>

\* the Promise.delay(ts) of line 206 expires: lines 206-208
SiblingPollTimer ==
  /\ \E s \in 1 .. Len(subs) :
       /\ subs[s].timer
       /\ subs[s].polls < MaxSiblingPolls
       /\ Commit(update([St EXCEPT !.subs[s].timer = FALSE], s))
  /\ UNCHANGED << nMsg, lastMsg >>

\* the server answers a request it was sent, each once, in any order
SiblingMessage == Receive(MaxSubs * MaxSiblingPolls, Unanswered)

NextSiblings ==
  SubscribeNumber \/ SiblingPollTimer \/ Cancel \/ Open \/ GateTick
    \/ SiblingMessage \/ Close

SpecSiblings == Init /\ [][NextSiblings]_vars

\* ------------------------------------------------- the inFlight counter
\* the user calls send(api, data, callback), with or without an identity
SendCount ==
  /\ UserSends < MaxCountSends
  /\ (startP # 0 \/ conns < MaxCountConns)
  /\ \E dataId \in DataIds : Commit(send(St, "user", 0, dataId, FALSE, 0))
  /\ UNCHANGED << nMsg, lastMsg >>

\* a message with any identity up to the counter: matching, stale, for
\* another request, repeated, or for no request
CountMessage == Receive(MaxCountMsgs, AnyId)

NextCount == SendCount \/ Open \/ GateTick \/ CountMessage \/ Close \/ Stop

SpecCount == Init /\ [][NextCount]_vars

\* =================================================================== claims
Subs == 1 .. Len(subs)
Reqs == 1 .. Len(reqs)

\* a message is handed to the request listeners in this step
Emits == ws = "open" /\ "message" \in wsL /\ nMsg' = nMsg + 1

\* C1 (as claimed): with pairwise distinct identities, every request whose
\* own response was delivered to the socket is resolved, whatever the order
\* of the responses.
C1_EveryResponseResolvesItsRequest ==
  (\A i, j \in Reqs : i # j => reqs[i].id # reqs[j].id) =>
    \A i \in Reqs : reqs[i].answered => reqs[i].outcome # "pending"

\* C2 (as claimed): at most 10 requests are on the connection without their
\* own matching response.
C2_AtMostCapAwaiting ==
  Cardinality({i \in Reqs : reqs[i].wrote /\ ~reqs[i].answered}) <= Cap

\* C3 (as claimed): once the connection has closed, failed or been stopped,
\* no transmitted request is still pending and inFlight counts none of them.
C3_CloseFailsPending ==
  (ws \in {"closed", "dropping"} \/ (ws = "none" /\ conns > 0)) =>
    /\ \A i \in Reqs : reqs[i].wrote => reqs[i].outcome # "pending"
    /\ inFlight <= Cardinality({i \in Reqs : ~reqs[i].wrote})

\* C4 (as claimed): once a subscription's cancellation handle has been
\* called, its callback is never invoked again and no further chain-head
\* query is issued for it.
C4_NoCallbackAfterCancel ==
  [][\A s \in Subs :
       subs[s].cancelled =>
         /\ subs'[s].events = subs[s].events
         /\ subs'[s].errs = subs[s].errs
         /\ subs'[s].polls = subs[s].polls]_vars

\* C5: an inbound message whose identity is smaller than the identity of
\* every pending request (every request whose listener is registered)
\* resolves and rejects no request, unregisters no request's listener and
\* leaves inFlight as it was.
C5_StaleMessageChangesNothing ==
  [][(Emits /\ IsStale(St, lastMsg'.id)) =>
       /\ inFlight' = inFlight
       /\ listeners' = listeners
       /\ Len(reqs') = Len(reqs)
       /\ \A i \in Reqs :
            /\ reqs'[i].outcome = reqs[i].outcome
            /\ reqs'[i].listening = reqs[i].listening]_vars

\* C5 witness: a message older than every pending request has just been
\* handed to the listeners of at least one pending request.
C5_Witness ==
  /\ lastMsg.stale
  /\ \E i \in Reqs : reqs[i].listening /\ lastMsg.id < reqs[i].id

\* C6 (as claimed): the request whose matching message carries an error
\* indicator is rejected, and the one whose matching message carries none is
\* resolved.
C6_ErrorIndicatorRejects ==
  \A i \in Reqs :
    /\ reqs[i].match = "err" => reqs[i].outcome = "rejected"
    /\ (reqs[i].match = "ok" /\ reqs[i].wrote) => reqs[i].outcome = "resolved"

\* C7 (as claimed): the payloads of the user's send calls are written in the
\* order of the calls.
C7_WritesInCallOrder ==
  \A i, j \in 1 .. Len(wire) :
    (i < j /\ reqs[wire[i]].kind = "user" /\ reqs[wire[j]].kind = "user")
      => wire[i] < wire[j]

RECURSIVE Dedupe(_)
\* a sequence without the elements equal to their predecessor
Dedupe(seq) ==
  IF Len(seq) <= 1 THEN seq
  ELSE LET front == Dedupe(SubSeq(seq, 1, Len(seq) - 1))
       IN IF seq[Len(seq)] = seq[Len(seq) - 1] THEN front
          ELSE Append(front, seq[Len(seq)])

\* C8 (as claimed): the watcher emits on a poll exactly when the returned
\* head differs from the head the previous poll returned, and nothing for the
\* first observed head.
C8_FirstHeadNotEmitted ==
  \A s \in Subs :
    subs[s].emitted = IF subs[s].heads = << >> THEN << >> ELSE Tail(Dedupe(subs[s].heads))

\* C8 (amended): the watcher emits the first observed head, and after it
\* emits on a poll exactly when the returned head differs from the head the
\* previous poll returned.
C8_EmitsOnChange ==
  \A s \in Subs : subs[s].emitted = Dedupe(subs[s].heads)

\* C8 witness: three polls returned an unchanged head and then a new one.
C8_Witness ==
  \E s \in Subs : subs[s].heads = << 1, 1, 2 >> /\ subs[s].emitted = << 1, 2 >>

\* C9: consecutive block fetches of one streamBlock subscription never have
\* the same block identity.
C9_NoRepeatedFetch ==
  \A s \in Subs :
    \A i \in 1 .. Len(subs[s].fetches) - 1 :
      subs[s].fetches[i] # subs[s].fetches[i + 1]

\* C9 witness: a subscription has fetched two blocks.
C9_Witness ==
  \E s \in Subs : Len(subs[s].fetches) >= 2

RECURSIVE Concat(_)
\* the concatenation of a sequence of sequences
Concat(seqs) ==
  IF seqs = << >> THEN << >> ELSE Head(seqs) \o Concat(Tail(seqs))

\* the operations of the delivered blocks, block by block, transaction by
\* transaction
OperationsOf(blocks) ==
  Concat([i \in 1 .. Len(blocks) |-> Concat(Blocks[blocks[i]])])

\* C10: streamOperations emits each operation of each transaction of each
\* delivered block exactly once, in the block's transaction order and the
\* transaction's operation order, block after block.
C10_OperationsInOrder ==
  \A s \in Subs :
    subs[s].layer = "op" => subs[s].events = OperationsOf(subs[s].blocks)

\* C10 witness: the block of three transactions with two operations each was
\* delivered and gave six events.
C10_Witness ==
  \E s \in Subs :
    /\ subs[s].layer = "op"
    /\ subs[s].blocks = << 1 >>
    /\ Len(subs[s].events) = 6

\* the requests whose listener is registered and whose identity is mid
OwnListeners(mid) == {i \in Reqs : reqs[i].listening /\ reqs[i].id = mid}

\* C11 (as claimed): inFlight is decremented only in a step that hands a
\* message to the listeners, and then once for each request whose own
\* identity the message carries, and for no other request.
C11_DecrementOnOwnMessageOnly ==
  [][Len(reqs') = Len(reqs) =>
       inFlight - inFlight' =
         IF Emits THEN Cardinality(OwnListeners(lastMsg'.id)) ELSE 0]_vars

\* C12 (as claimed): a request's listener is unregistered only in the step
\* that hands on the message carrying the request's own identity.
C12_UnregisteredOnOwnMessageOnly ==
  [][\A i \in Reqs :
       (reqs[i].listening /\ ~reqs'[i].listening) =>
         (Emits /\ lastMsg'.id = reqs[i].id)]_vars

\* C13 (as claimed): no two pending requests have the same identity.
C13_PendingIdentitiesDistinct ==
  \A i, j \in Reqs :
    (i # j /\ reqs[i].outcome = "pending" /\ reqs[j].outcome = "pending")
      => reqs[i].id # reqs[j].id

\* the calls of send that a call of start() makes on the way
ApiCalls == IF startP = 0 THEN NumApis ELSE 0

\* C14 (as claimed): in every reachable state, a call of send with an
\* explicit identity d, 0 included, gives the request the identity d and
\* does not advance the counter (beyond the API-id calls of start()).
C14_ExplicitIdentityUsed ==
  \A d \in DataIds \ {NoId} :
    LET S2 == send(St, "user", 0, d, FALSE, 0)
    IN /\ S2.reqs[Len(S2.reqs)].id = d
       /\ S2.id = id + ApiCalls

\* C18 (as claimed): after stop() (setWebSocket) and until the next start,
\* no request's listener is registered and inFlight counts no request.
C18_StopDiscardsPending ==
  (ws = "none" /\ conns > 0) => (listeners = << >> /\ inFlight = 0)

\* C20 (as claimed): every message received from an open socket is handed
\* to the registered request listeners.
C20_EveryMessageEmitted ==
  [][(ws = "open" /\ nMsg' = nMsg + 1) => Emits]_vars

\* C15 (as claimed): once a subscription has delivered an error to its
\* caller, it issues no further chain-head query and no further block fetch
\* and delivers no further event.
C15_ErrorStopsSubscription ==
  [][\A s \in Subs :
       subs[s].errs > 0 =>
         /\ subs'[s].polls = subs[s].polls
         /\ subs'[s].fetches = subs[s].fetches
         /\ subs'[s].events = subs[s].events]_vars

\* C16 (as claimed): while a subscription is neither cancelled nor ended by
\* an error, every chain-head query of it that the server has answered has
\* been delivered to it, also when a sibling subscription was cancelled or
\* ended by an error.
C16_SiblingKeepsEmitting ==
  \A s, t \in Subs :
    (/\ s # t
     /\ subs[s].cancelled \/ subs[s].errs > 0
     /\ ~subs[t].cancelled
     /\ subs[t].errs = 0)
      => \A i \in Reqs :
           (reqs[i].kind = "head" /\ reqs[i].sub = t /\ reqs[i].answered)
             => reqs[i].outcome # "pending"

AllAnswered == \A i \in Reqs : reqs[i].wrote => reqs[i].answered

\* the payload of every call of send made so far was written
AllWritten == \A i \in Reqs : reqs[i].wrote

\* C19 (as claimed): if the connection opens and every transmitted request
\* gets its matching response, then the payload of every call of send is
\* eventually written (the calls are finitely many and a written payload
\* stays written, so: again and again all of them are written).
C19_EverySendTransmitted ==
  (<>(ws = "open") /\ []<>AllAnswered) => []<>AllWritten

====
